---------------------------- MODULE Spec2Model ----------------------------
(***************************************************************************)
(* Model of the tracking / behaviour-classification core of the CCTV       *)
(* security system:                                                        *)
(*   backend/app/detection/behavior_analyzer.py   (TrackedObject,          *)
(*                                                  BehaviorAnalyzer)      *)
(*   backend/app/detection/surveillance_system.py (SurveillanceSystem)     *)
(*   backend/app/detection/integrated_surveillance.py                      *)
(*                                                                         *)
(* Pixel coordinates are integers (the detector casts them with int()).    *)
(* Distances that the code only compares are compared through their        *)
(* squares, which is exact; where the code needs the distance itself       *)
(* (total_distance, get_speed) the integer square root is used, and the    *)
(* detector inputs of the model only produce displacements whose length    *)
(* is an integer, so that no rounding is involved.                         *)
(***************************************************************************)
EXTENDS Integers, Sequences, FiniteSets, TLC

VARIABLES
    \* ---- BehaviorAnalyzer (behavior_analyzer.py:166-186)
    tracked_objects,   \* id -> TrackedObject record (dict, iterated in id order)
    next_object_id,    \* counter for assigning ids
    frame_count,       \* analyzer frame counter
    alert_cooldown,    \* object id -> frame of its last alert
    \* ---- results of the last calls (return values / per-call effects)
    events,            \* list returned by the last detect_suspicious_behaviors
    matches,           \* per detection of the last update_tracks: what was done
    \* ---- history of the run (observations, never read by the operations)
    hist,              \* id -> [created, matched, obj] for every id ever assigned
    emit_hist,         \* <<id, kind>> -> frames at which that event was emitted
    replica,           \* a second BehaviorAnalyzer, fed the same detection lists
    \* ---- the scene in front of the camera and the detector (external)
    scene,             \* physical object -> its motion state
    env,               \* remaining freedom of the scene (budgets, horizon)
    phase,             \* which analyzer call comes next: "update" or "detect"
    \* ---- SurveillanceSystem (surveillance_system.py:24-63)
    pc,                \* position inside start_monitoring
    is_running,        \* self.is_running
    camera,            \* self.camera: "none", "closed" (failed to open), "open"
    releases,          \* number of camera.release() calls on the opened handle
    last_alert_time,   \* event key -> wall-clock time of last delivery
    now,               \* wall clock (seconds)
    pending,           \* events of the current frame not yet handled
    delivered,         \* per event of the current frame: what was done with it
    sink               \* counters of the external sink (images, callbacks, db, mail)

analyzerVars == <<tracked_objects, next_object_id, frame_count, alert_cooldown>>
obsVars      == <<events, matches, hist, emit_hist, replica>>
envVars      == <<scene, env, phase>>
loopVars     == <<pc, is_running, camera, releases, last_alert_time, now,
                  pending, delivered, sink>>
vars == <<tracked_objects, next_object_id, frame_count, alert_cooldown,
          events, matches, hist, emit_hist, replica, scene, env, phase,
          pc, is_running, camera, releases, last_alert_time, now,
          pending, delivered, sink>>

---------------------------------------------------------------------------
(* Program constants *)

HISTORY_MAXLEN == 30
MAX_DISTANCE == 100
RECENT_FRAMES == 10
EVICT_AGE == 30
STATIONARY_DISTANCE == 10
STATIONARY_RUN == 30
SPEED_WINDOW == 10
FAST_MOVEMENT_THRESHOLD == 15
FAST_MIN_TIME_IN_VIEW == 10
FAST_CONFIDENCE_SPEED == 30
LOITERING_THRESHOLD == 150
LOITERING_CONFIDENCE_FRAMES == 300
ERRATIC_MIN_HISTORY == 10
ERRATIC_WINDOW == 15
ERRATIC_CHANGES == 5
ALERT_COOLDOWN_FRAMES == 90
DETECTION_COOLDOWN == 5

NoMatch == -1

---------------------------------------------------------------------------
(* Arithmetic helpers *)

Abs(x) == IF x < 0 THEN -x ELSE x

Last(s) == s[Len(s)]

\* the last n elements of s (list(deque)[-n:])
LastN(s, n) == IF Len(s) <= n THEN s ELSE SubSeq(s, Len(s) - n + 1, Len(s))

RECURSIVE SqrtSearch(_, _, _)
SqrtSearch(n, lo, hi) ==
    IF lo >= hi THEN lo
    ELSE LET mid == (lo + hi + 1) \div 2
         IN  IF mid * mid <= n THEN SqrtSearch(n, mid, hi)
             ELSE SqrtSearch(n, lo, mid - 1)

\* math.sqrt on a square of an integer length (floor otherwise)
Sqrt(n) == SqrtSearch(n, 0, n)

\* (curr[0]-prev[0])**2 + (curr[1]-prev[1])**2
Dist2(p, q) == (p[1] - q[1]) * (p[1] - q[1]) + (p[2] - q[2]) * (p[2] - q[2])

\* math.sqrt((curr[0]-prev[0])**2 + (curr[1]-prev[1])**2)
Distance(p, q) ==
    IF p[2] = q[2] THEN Abs(p[1] - q[1])
    ELSE IF p[1] = q[1] THEN Abs(p[2] - q[2])
    ELSE Sqrt(Dist2(p, q))

DequeAppendUnbounded(s, x) == Append(s, x)

\* deque(maxlen=30).append
DequeAppend(s, x) ==
    IF Len(s) < HISTORY_MAXLEN THEN Append(s, x) ELSE Append(Tail(s), x)

RECURSIVE SortedSeq(_)
SortedSeq(S) ==
    IF S = {} THEN <<>>
    ELSE LET m == CHOOSE x \in S : \A y \in S : x <= y
         IN  <<m>> \o SortedSeq(S \ {m})

\* dict iteration order: insertion order, which is ascending id because ids are
\* handed out in increasing order and an update never re-inserts a key
TrackIds(tracks) == SortedSeq(DOMAIN tracks)

---------------------------------------------------------------------------
(* TrackedObject *)

\* TrackedObject.__init__
NewTrackedObject(object_id, detection, frame_number) ==
    [ id                |-> object_id,
      class_name        |-> detection.class_name,
      first_seen        |-> frame_number,
      last_seen         |-> frame_number,
      position_history  |-> <<detection.center>>,
      bbox_history      |-> <<detection.bbox>>,
      total_distance    |-> 0,
      is_stationary     |-> FALSE,
      stationary_frames |-> 0,
      suspicious_behavior |-> FALSE,
      behavior_type     |-> "None",
      confidence        |-> <<0, 1>> ]

\* the test "distance < 10" of TrackedObject.update
LowDisplacement(prev_pos, curr_pos) ==
    Dist2(curr_pos, prev_pos) < STATIONARY_DISTANCE * STATIONARY_DISTANCE

LongStationaryRunInclusive(n) == n >= STATIONARY_RUN

\* the test "self.stationary_frames > 30" of TrackedObject.update
LongStationaryRun(n) == n > STATIONARY_RUN

\* TrackedObject.update
UpdateTrackedObject(t, detection, frame_number) ==
    LET prev_pos == Last(t.position_history)
        curr_pos == detection.center
        low      == LowDisplacement(prev_pos, curr_pos)
        run      == IF low THEN t.stationary_frames + 1 ELSE 0
    IN  [ t EXCEPT
            !.last_seen         = frame_number,
            !.total_distance    = @ + Distance(curr_pos, prev_pos),
            !.position_history  = DequeAppend(@, curr_pos),
            !.bbox_history      = DequeAppend(@, detection.bbox),
            !.stationary_frames = run,
            !.is_stationary     = IF low
                                  THEN (IF LongStationaryRun(run) THEN TRUE ELSE @)
                                  ELSE FALSE ]

RECURSIVE PathLength(_)
PathLength(ps) ==
    IF Len(ps) < 2 THEN 0
    ELSE Distance(ps[2], ps[1]) + PathLength(Tail(ps))

GetSpeedOverTenPairs(t) ==
    IF Len(t.position_history) < 2 THEN <<0, 1>>
    ELSE LET recent == LastN(t.position_history, SPEED_WINDOW + 1)
         IN  <<PathLength(recent), Len(recent) - 1>>

\* TrackedObject.get_speed, as the fraction <<total_distance, steps>>
GetSpeed(t) ==
    IF Len(t.position_history) < 2 THEN <<0, 1>>
    ELSE LET recent == LastN(t.position_history, SPEED_WINDOW)
         IN  <<PathLength(recent), Len(recent) - 1>>

\* TrackedObject.is_moving_fast: get_speed() > threshold
IsMovingFast(t, threshold) == GetSpeed(t)[1] > threshold * GetSpeed(t)[2]

TimeInViewExclusive(t) == t.last_seen - t.first_seen

\* TrackedObject.time_in_view
TimeInView(t) == t.last_seen - t.first_seen + 1

---------------------------------------------------------------------------
(* BehaviorAnalyzer.match_detection_to_tracked *)

AnyClass(t, detection) == TRUE

NoLabel == "?"

SameClassOfLabelled(t, detection) ==
    t.class_name = detection.class_name /\ detection.obj # NoLabel

\* "if tracked_obj.class_name != detection['class_name']: continue"
SameClass(t, detection) == t.class_name = detection.class_name

SeenRecentlyOrJustBefore(t, fc) == ~(fc - t.last_seen > RECENT_FRAMES + 1)

\* "if self.frame_count - tracked_obj.last_seen > 10: continue"
SeenRecently(t, fc) == ~(fc - t.last_seen > RECENT_FRAMES)

CloserOrEqual(d2, best_d2) == d2 <= best_d2 /\ d2 < MAX_DISTANCE * MAX_DISTANCE

\* "if distance < best_distance" (both sides squared)
Closer(d2, best_d2) == d2 < best_d2

\* the loop over self.tracked_objects.items(); best is <<best_match_id, best_distance^2>>
RECURSIVE MatchScan(_, _, _, _, _)
MatchScan(ids, tracks, detection, fc, best) ==
    IF ids = <<>> THEN best
    ELSE LET t  == tracks[Head(ids)]
             d2 == Dist2(detection.center, Last(t.position_history))
         IN  IF ~SameClass(t, detection)
             THEN MatchScan(Tail(ids), tracks, detection, fc, best)
             ELSE IF ~SeenRecently(t, fc)
             THEN MatchScan(Tail(ids), tracks, detection, fc, best)
             ELSE IF Closer(d2, best[2])
             THEN MatchScan(Tail(ids), tracks, detection, fc, <<Head(ids), d2>>)
             ELSE MatchScan(Tail(ids), tracks, detection, fc, best)

\* match_detection_to_tracked(detection, max_distance=100.0): id or NoMatch
MatchDetectionToTracked(tracks, detection, fc) ==
    MatchScan(TrackIds(tracks), tracks, detection, fc,
              <<NoMatch, MAX_DISTANCE * MAX_DISTANCE>>)[1]

---------------------------------------------------------------------------
(* BehaviorAnalyzer.update_tracks *)

\* "new_id = self.next_object_id"
NewId(next) == next

NextIdStuck(next) == next

\* "self.next_object_id += 1"
NextIdAfter(next) == next + 1

ExpiredOneEarly(t, fc) == fc - t.last_seen >= EVICT_AGE

\* "if self.frame_count - tracked_obj.last_seen > 30: to_remove.append(obj_id)"
Expired(t, fc) == fc - t.last_seen > EVICT_AGE

\* what the loop of match_detection_to_tracked finds in the dict for one
\* detection: per track its class, the frames since it was seen and the squared
\* distance of its last position to the detection (kept in the log only)
Snapshot(tracks, detection, fc) ==
    [j \in DOMAIN tracks |->
        [ class_name |-> tracks[j].class_name,
          age        |-> fc - tracks[j].last_seen,
          d2         |-> Dist2(detection.center, Last(tracks[j].position_history)) ]]

\* the body of "for detection in detections" for one detection; st is
\* [tracks, next, log]: the dict, the id counter and what was done so far.
\* existing: the ids that were in the dict when update_tracks was entered.
HandleDetection(st, detection, fc, existing) ==
    LET matched_id == MatchDetectionToTracked(st.tracks, detection, fc)
    IN  IF matched_id # NoMatch
        THEN [ tracks |-> [st.tracks EXCEPT ![matched_id] =
                              UpdateTrackedObject(@, detection, fc)],
               next   |-> st.next,
               log    |-> Append(st.log,
                              [ id |-> matched_id, created |-> FALSE,
                                existing |-> matched_id \in existing,
                                obj |-> detection.obj,
                                class_name |-> detection.class_name,
                                center |-> detection.center,
                                from |-> Last(st.tracks[matched_id].position_history),
                                age |-> fc - st.tracks[matched_id].last_seen,
                                snapshot |-> Snapshot(st.tracks, detection, fc) ]) ]
        ELSE LET new_id == NewId(st.next)
             IN  [ tracks |-> [i \in DOMAIN st.tracks \cup {new_id} |->
                                 IF i = new_id
                                 THEN NewTrackedObject(new_id, detection, fc)
                                 ELSE st.tracks[i]],
                   next   |-> NextIdAfter(st.next),
                   log    |-> Append(st.log,
                                 [ id |-> new_id, created |-> TRUE,
                                   existing |-> FALSE,
                                   obj |-> detection.obj,
                                   class_name |-> detection.class_name,
                                   center |-> detection.center,
                                   from |-> detection.center,
                                   age |-> 0,
                                   snapshot |-> Snapshot(st.tracks, detection, fc) ]) ]

RECURSIVE HandleDetections(_, _, _, _)
HandleDetections(st, detections, fc, existing) ==
    IF detections = <<>> THEN st
    ELSE HandleDetections(HandleDetection(st, Head(detections), fc, existing),
                          Tail(detections), fc, existing)

\* "Remove old tracks": the dict without the expired tracks
RemoveOldTracks(tracks, fc) ==
    [i \in {j \in DOMAIN tracks : ~Expired(tracks[j], fc)} |-> tracks[i]]

UpdateTracksSkippingEmpty(tracks, next, fc, detections) ==
    LET st == HandleDetections([tracks |-> tracks, next |-> next, log |-> <<>>],
                               detections, fc + 1, DOMAIN tracks)
    IN  IF detections = <<>> THEN st
        ELSE [st EXCEPT !.tracks = RemoveOldTracks(@, fc + 1)]

\* update_tracks(detections) on the analyzer state <<tracks, next, frame_count>>:
\* the new [tracks, next, log]
UpdateTracksResult(tracks, next, fc, detections) ==
    LET st == HandleDetections([tracks |-> tracks, next |-> next, log |-> <<>>],
                               detections, fc + 1, DOMAIN tracks)
    IN  [st EXCEPT !.tracks = RemoveOldTracks(@, fc + 1)]

---------------------------------------------------------------------------
(* BehaviorAnalyzer.detect_erratic_movement *)

DirectionChangeCountingZero(p0, p1, p2) ==
    IF (p1[1] - p0[1]) * (p2[1] - p1[1]) + (p1[2] - p0[2]) * (p2[2] - p1[2]) <= 0
    THEN 1 ELSE 0

\* one step of "for i in range(2, len(positions))": 1 when the triple
\* positions[i-2], positions[i-1], positions[i] is a direction change.
\* angle > pi/2 with angle = acos(clamp(dot/(mag1*mag2))) is dot < 0, because the
\* magnitudes are positive there.
DirectionChange(p0, p1, p2) ==
    LET v1 == <<p1[1] - p0[1], p1[2] - p0[2]>>
        v2 == <<p2[1] - p1[1], p2[2] - p1[2]>>
    IN  IF (v1[1] * v1[1] + v1[2] * v1[2]) > 0 /\ (v2[1] * v2[1] + v2[2] * v2[2]) > 0
        THEN (IF v1[1] * v2[1] + v1[2] * v2[2] < 0 THEN 1 ELSE 0)
        ELSE 0

RECURSIVE DirectionChanges(_)
DirectionChanges(ps) ==
    IF Len(ps) < 3 THEN 0
    ELSE DirectionChange(ps[1], ps[2], ps[3]) + DirectionChanges(Tail(ps))

\* detect_erratic_movement(tracked_obj)
DetectErraticMovement(t) ==
    IF Len(t.position_history) < ERRATIC_MIN_HISTORY THEN FALSE
    ELSE DirectionChanges(LastN(t.position_history, ERRATIC_WINDOW)) >= ERRATIC_CHANGES

---------------------------------------------------------------------------
(* BehaviorAnalyzer.detect_suspicious_behaviors *)

Kinds == <<"fast_movement", "loitering", "erratic_movement">>

IsAnyClass(t) == TRUE

\* "if tracked_obj.class_name != 'person': continue"
IsPerson(t) == t.class_name = "person"

InCooldownInclusive(cooldown, obj_id, fc) ==
    /\ obj_id \in DOMAIN cooldown
    /\ fc - cooldown[obj_id] <= ALERT_COOLDOWN_FRAMES

InCooldownShort(cooldown, obj_id, fc) ==
    /\ obj_id \in DOMAIN cooldown
    /\ fc - cooldown[obj_id] < ALERT_COOLDOWN_FRAMES - 1

\* "if obj_id in self.alert_cooldown:
\*      if self.frame_count - self.alert_cooldown[obj_id] < ALERT_COOLDOWN_FRAMES"
InCooldown(cooldown, obj_id, fc) ==
    /\ obj_id \in DOMAIN cooldown
    /\ fc - cooldown[obj_id] < ALERT_COOLDOWN_FRAMES

\* the three conditions under which an event is appended
Qualifies(t, kind) ==
    CASE kind = "fast_movement" ->
            IsMovingFast(t, FAST_MOVEMENT_THRESHOLD) /\ TimeInView(t) > FAST_MIN_TIME_IN_VIEW
      [] kind = "loitering" ->
            t.is_stationary /\ TimeInView(t) > LOITERING_THRESHOLD
      [] kind = "erratic_movement" ->
            DetectErraticMovement(t)

\* the 'confidence' of an event, as a fraction <<numerator, denominator>>
Confidence(t, kind) ==
    CASE kind = "fast_movement" ->
            LET s == GetSpeed(t)
            IN  IF s[1] >= FAST_CONFIDENCE_SPEED * s[2] THEN <<1, 1>>
                ELSE <<s[1], FAST_CONFIDENCE_SPEED * s[2]>>
      [] kind = "loitering" ->
            IF TimeInView(t) >= LOITERING_CONFIDENCE_FRAMES THEN <<1, 1>>
            ELSE <<TimeInView(t), LOITERING_CONFIDENCE_FRAMES>>
      [] kind = "erratic_movement" -> <<7, 10>>

MakeEvent(t, kind) ==
    [ object_id     |-> t.id,
      behavior_type |-> kind,
      confidence    |-> Confidence(t, kind),
      position      |-> Last(t.position_history),
      class_name    |-> t.class_name ]

FirstBehaviorOnly(t) ==
    IF Qualifies(t, Kinds[1]) THEN <<MakeEvent(t, Kinds[1])>>
    ELSE IF Qualifies(t, Kinds[2]) THEN <<MakeEvent(t, Kinds[2])>>
    ELSE IF Qualifies(t, Kinds[3]) THEN <<MakeEvent(t, Kinds[3])>>
    ELSE <<>>

\* the events appended for one track once it passed the class and cooldown
\* tests, in the order of the three "Behavior" blocks
BehaviorEvents(t) ==
    (IF Qualifies(t, Kinds[1]) THEN <<MakeEvent(t, Kinds[1])>> ELSE <<>>)
    \o (IF Qualifies(t, Kinds[2]) THEN <<MakeEvent(t, Kinds[2])>> ELSE <<>>)
    \o (IF Qualifies(t, Kinds[3]) THEN <<MakeEvent(t, Kinds[3])>> ELSE <<>>)

\* the body of "for obj_id, tracked_obj in self.tracked_objects.items()"
TrackEvents(t, cooldown, fc) ==
    IF ~IsPerson(t) THEN <<>>
    ELSE IF InCooldown(cooldown, t.id, fc) THEN <<>>
    ELSE BehaviorEvents(t)

RECURSIVE CollectEvents(_, _, _, _)
CollectEvents(ids, tracks, cooldown, fc) ==
    IF ids = <<>> THEN <<>>
    ELSE TrackEvents(tracks[Head(ids)], cooldown, fc)
         \o CollectEvents(Tail(ids), tracks, cooldown, fc)

\* the list returned by detect_suspicious_behaviors
SuspiciousEvents(tracks, cooldown, fc) ==
    CollectEvents(TrackIds(tracks), tracks, cooldown, fc)

TracksFlagged(tracks, evs) ==
    [i \in DOMAIN tracks |->
        IF \E j \in DOMAIN evs : evs[j].object_id = i
        THEN [tracks[i] EXCEPT !.suspicious_behavior = TRUE]
        ELSE tracks[i]]

\* the tracks after detect_suspicious_behaviors: it calls is_moving_fast,
\* time_in_view, get_speed and detect_erratic_movement and reads is_stationary
\* and position_history, and assigns to no attribute of a track
TracksAfterDetect(tracks, evs) == tracks

CooldownNotRecorded(cooldown, evs, fc) == cooldown

\* "self.alert_cooldown[obj_id] = self.frame_count" for every event appended
CooldownAfter(cooldown, evs, fc) ==
    LET alerted == {evs[i].object_id : i \in DOMAIN evs}
    IN  [i \in DOMAIN cooldown \cup alerted |->
            IF i \in alerted THEN fc ELSE cooldown[i]]

---------------------------------------------------------------------------
(* The scene and the detector (external: ObjectDetector.detect_objects).     *)
(* A scene is a few physical objects; each is either hidden (not yet in     *)
(* view, or occluded) or shown, and when shown it has moved by the next     *)
(* step of its gait since it was last shown.  The labels of the physical    *)
(* objects travel with the detections as the field obj, which no operation  *)
(* of the analyzer reads.                                                   *)

\* the displacement patterns of the scene's objects, cycled step by step
GaitSteps(g) ==
    CASE g = "still"  -> << <<0, 0>> >>
      [] g = "walk"   -> << <<20, 0>> >>
      [] g = "zigzag" -> << <<20, 0>>, <<-20, 0>> >>
      [] g = "jitter" -> << <<5, 0>>, <<-5, 0>> >>
      [] g = "creep"  -> << <<5, 0>> >>
      [] g = "lunge"  -> << <<16, 12>>, <<-16, 12>> >>
      [] g = "stride" -> << <<60, 0>> >>
      [] g = "leap"   -> << <<120, 0>> >>

\* a detection dictionary of detect_objects: bbox around the center
Detection(label, cls, center) ==
    [ class_name |-> cls,
      center     |-> center,
      bbox       |-> <<center[1] - 10, center[2] - 20, center[1] + 10, center[2] + 20>>,
      obj        |-> label ]

\* a detection dictionary whose box is degenerate (x1 = x2): the detector casts
\* the corners with int() and does not compare them
FlatDetection(label, cls, center) ==
    [ class_name |-> cls,
      center     |-> center,
      bbox       |-> <<center[1], center[2] - 20, center[1], center[2] + 20>>,
      obj        |-> label ]

\* what one object may do in frame fc: stay hidden / be shown, with which gait
\* (a gait is only changed in every e.every-th frame)
ObjMoves(o, e, fc) ==
    {m \in [show : BOOLEAN, gait : e.gaits \cup {o.gait}] :
        /\ (~m.show) => (m.gait = o.gait /\ (o.hidden \/ e.gaps > 0))
        /\ (m.gait # o.gait) => (e.turns > 0 /\ o.shown > 0 /\ fc % e.every = 0)}

\* the object after the frame fc in which it made move m
ObjAfter(o, m, fc) ==
    IF ~m.show THEN [o EXCEPT !.hidden = TRUE]
    ELSE LET k    == IF m.gait = o.gait THEN o.k ELSE 0
             steps == GaitSteps(m.gait)
             step == steps[(k % Len(steps)) + 1]
             pos  == IF o.shown = 0 THEN o.pos
                     ELSE <<o.pos[1] + step[1], o.pos[2] + step[2]>>
         IN  [o EXCEPT !.pos = pos, !.gait = m.gait, !.k = k + 1,
                       !.shown = fc, !.hidden = FALSE,
                       !.ok = IF o.shown = 0 THEN TRUE
                              ELSE /\ o.ok
                                   /\ fc - o.shown <= RECENT_FRAMES
                                   /\ Dist2(pos, o.pos) < MAX_DISTANCE * MAX_DISTANCE]

\* every ordering of the elements of a finite set
RECURSIVE Orderings(_)
Orderings(S) ==
    IF S = {} THEN {<<>>}
    ELSE UNION {{<<x>> \o r : r \in Orderings(S \ {x})} : x \in S}

\* the joint moves of the objects that the scene's budgets allow
SceneMoves(sc, e, fc) ==
    {mv \in [DOMAIN sc -> [show : BOOLEAN, gait : e.gaits \cup {sc[o].gait : o \in DOMAIN sc}]] :
        /\ \A o \in DOMAIN sc : mv[o] \in ObjMoves(sc[o], e, fc)
        /\ Cardinality({o \in DOMAIN sc : ~mv[o].show /\ ~sc[o].hidden}) <= e.gaps
        /\ Cardinality({o \in DOMAIN sc : mv[o].gait # sc[o].gait}) <= e.turns}

SceneAfter(sc, mv, fc) == [o \in DOMAIN sc |-> ObjAfter(sc[o], mv[o], fc)]

EnvAfter(sc, e, mv) ==
    [e EXCEPT
       !.gaps  = @ - Cardinality({o \in DOMAIN sc : ~mv[o].show /\ ~sc[o].hidden}),
       !.turns = @ - Cardinality({o \in DOMAIN sc : mv[o].gait # sc[o].gait})]

\* the detection lists the detector can return for the scene sc2 of this frame
DetectionLists(sc2, mv) ==
    {[i \in DOMAIN ord |->
         IF sc2[ord[i]].flat
         THEN FlatDetection(ord[i], sc2[ord[i]].cls, sc2[ord[i]].pos)
         ELSE Detection(ord[i], sc2[ord[i]].cls, sc2[ord[i]].pos)] :
        ord \in Orderings({o \in DOMAIN sc2 : mv[o].show})}

SceneObject(cls, pos, gait) ==
    [cls |-> cls, pos |-> pos, gait |-> gait, k |-> 0, shown |-> 0,
     hidden |-> FALSE, ok |-> TRUE, flat |-> FALSE]

\* an object that the detector reports with a degenerate box
FlatObject(cls, pos, gait) == [SceneObject(cls, pos, gait) EXCEPT !.flat = TRUE]

---------------------------------------------------------------------------
(* History of the run *)

RECURSIVE HistAfter(_, _, _)
HistAfter(h, log, fc) ==
    IF log = <<>> THEN h
    ELSE LET m == Head(log)
             h2 == [ alloc |-> IF m.created THEN Append(h.alloc, m.id) ELSE h.alloc,
                     born  |-> [i \in DOMAIN h.born \cup {m.id} |->
                                   IF i = m.id /\ m.created THEN fc ELSE h.born[i]],
                     seen  |-> [i \in DOMAIN h.seen \cup {m.id} |->
                                   IF i = m.id THEN fc ELSE h.seen[i]],
                     owner |-> [i \in DOMAIN h.owner \cup {m.id} |->
                                   IF i = m.id /\ m.created THEN m.obj
                                   ELSE h.owner[i]],
                     ids   |-> [o \in DOMAIN h.ids \cup {m.obj} |->
                                   IF o = m.obj
                                   THEN (IF o \in DOMAIN h.ids THEN h.ids[o] ELSE {})
                                        \cup {m.id}
                                   ELSE h.ids[o]] ]
         IN  HistAfter(h2, Tail(log), fc)

EmitHistAfter(eh, evs, fc) ==
    LET keys == {<<evs[i].object_id, evs[i].behavior_type>> : i \in DOMAIN evs}
    IN  [k \in DOMAIN eh \cup keys |->
            IF k \in keys
            THEN (IF k \in DOMAIN eh THEN Append(eh[k], fc) ELSE <<fc>>)
            ELSE eh[k]]

EmptyMap == [x \in {} |-> 0]

\* a second, freshly constructed BehaviorAnalyzer
FreshAnalyzer ==
    [tracks |-> EmptyMap, next |-> 0, fc |-> 0, cooldown |-> EmptyMap,
     events |-> <<>>]

\* a detection list as the detector returned it: without the labels of the
\* physical objects
Unlabelled(detections) ==
    [j \in DOMAIN detections |-> [detections[j] EXCEPT !.obj = NoLabel]]

\* the second analyzer after its update_tracks(detections); it is run only
\* when the run is replayed
ReplicaAfterUpdate(rp, e, detections) ==
    IF e.record
    THEN LET r == UpdateTracksResult(rp.tracks, rp.next, rp.fc, Unlabelled(detections))
         IN  [rp EXCEPT !.tracks = r.tracks, !.next = r.next, !.fc = @ + 1]
    ELSE rp

\* the second analyzer after its detect_suspicious_behaviors()
ReplicaAfterDetect(rp, e) ==
    IF e.record
    THEN LET evs == SuspiciousEvents(rp.tracks, rp.cooldown, rp.fc)
         IN  [rp EXCEPT !.events = evs,
                        !.cooldown = CooldownAfter(@, evs, rp.fc)]
    ELSE rp

---------------------------------------------------------------------------
(* The analyzer driven frame by frame, as process_frame does: update_tracks  *)
(* and then detect_suspicious_behaviors                                      *)

InitAnalyzer ==
    /\ tracked_objects = EmptyMap
    /\ next_object_id = 0
    /\ frame_count = 0
    /\ alert_cooldown = EmptyMap
    /\ events = <<>>
    /\ matches = <<>>
    /\ hist = [alloc |-> <<>>, born |-> EmptyMap, seen |-> EmptyMap,
               owner |-> EmptyMap, ids |-> EmptyMap]
    /\ emit_hist = EmptyMap
    /\ replica = FreshAnalyzer

InitLoopIdle ==
    /\ pc = "idle"
    /\ is_running = FALSE
    /\ camera = "none"
    /\ releases = 0
    /\ last_alert_time = EmptyMap
    /\ now = 0
    /\ pending = <<>>
    /\ delivered = <<>>
    /\ sink = [images |-> 0, callbacks |-> 0, db |-> 0, mails |-> 0]

\* BehaviorAnalyzer.update_tracks(detections)
UpdateTracks ==
    /\ phase = "update"
    /\ frame_count < env.horizon
    /\ \E mv \in SceneMoves(scene, env, frame_count + 1) :
         LET sc2 == SceneAfter(scene, mv, frame_count + 1)
         IN  \E detections \in DetectionLists(sc2, mv) :
               LET r == UpdateTracksResult(tracked_objects, next_object_id,
                                           frame_count, detections)
               IN  /\ tracked_objects' = r.tracks
                   /\ next_object_id' = r.next
                   /\ frame_count' = frame_count + 1
                   /\ matches' = r.log
                   /\ hist' = HistAfter(hist, r.log, frame_count + 1)
                   /\ replica' = ReplicaAfterUpdate(replica, env, detections)
                   /\ scene' = sc2
                   /\ env' = EnvAfter(scene, env, mv)
    /\ phase' = "detect"
    /\ UNCHANGED <<alert_cooldown, events, emit_hist>>
    /\ UNCHANGED loopVars

\* BehaviorAnalyzer.detect_suspicious_behaviors()
DetectSuspiciousBehaviors ==
    /\ phase = "detect"
    /\ LET evs == SuspiciousEvents(tracked_objects, alert_cooldown, frame_count)
       IN  /\ events' = evs
           /\ alert_cooldown' = CooldownAfter(alert_cooldown, evs, frame_count)
           /\ emit_hist' = EmitHistAfter(emit_hist, evs, frame_count)
           /\ replica' = ReplicaAfterDetect(replica, env)
           /\ tracked_objects' = TracksAfterDetect(tracked_objects, evs)
    /\ phase' = "update"
    /\ UNCHANGED <<next_object_id, frame_count, matches, hist>>
    /\ UNCHANGED <<scene, env>>
    /\ UNCHANGED loopVars

Next == UpdateTracks \/ DetectSuspiciousBehaviors

---------------------------------------------------------------------------
(* Specifications of the analyzer: the same operations, different scenes *)

\* bounds of the scenes
MatchHorizon == 4
MatchGaps == 1
EvictHorizon == 36
EvictGaps == 1

InitWith(sc, e) ==
    /\ InitAnalyzer
    /\ InitLoopIdle
    /\ scene = sc
    /\ env = e
    /\ phase = "update"

\* two persons 110 px apart, one of them striding towards the other, and a car
\* that drives between them
MatchScene ==
    [o \in {"a", "b", "c"} |->
        CASE o = "a" -> SceneObject("person", <<0, 0>>, "stride")
          [] o = "b" -> SceneObject("person", <<110, 0>>, "still")
          [] o = "c" -> SceneObject("car", <<60, 0>>, "walk")]

InitMatch ==
    InitWith(MatchScene,
             [horizon |-> MatchHorizon, gaps |-> MatchGaps, turns |-> 0,
              every |-> 1, gaits |-> {}, record |-> FALSE])

\* one person who walks, may be out of view for any number of frames, and
\* comes back
EvictScene == [o \in {"a"} |-> SceneObject("person", <<0, 0>>, "walk")]

InitEvict ==
    InitWith(EvictScene,
             [horizon |-> EvictHorizon, gaps |-> EvictGaps, turns |-> 0,
              every |-> 1, gaits |-> {}, record |-> FALSE])

Init == InitMatch \/ InitEvict

Spec == Init /\ [][Next]_vars

\* one person seen in every frame, who starts with any of four gaits and may
\* change gait in every AlertTurnEvery-th frame, at most AlertTurns times
AlertHorizon == 285
AlertTurns == 1
AlertTurnEvery == 30

AlertGaits == {"walk", "zigzag", "still", "jitter"}

InitAlert ==
    \E g \in AlertGaits :
        InitWith([o \in {"a"} |-> SceneObject("person", <<0, 0>>, g)],
                 [horizon |-> AlertHorizon, gaps |-> 0, turns |-> AlertTurns,
                  every |-> AlertTurnEvery, gaits |-> AlertGaits,
                  record |-> FALSE])

SpecAlert == InitAlert /\ [][Next]_vars

\* a walking person and, 300 px away, a standing person whose box the detector
\* reports degenerate; either may be out of view for some frames
FlatHorizon == 6
FlatGaps == 2

FlatScene ==
    [o \in {"a", "m"} |->
        CASE o = "a" -> SceneObject("person", <<0, 0>>, "walk")
          [] o = "m" -> FlatObject("person", <<300, 0>>, "still")]

InitFlat ==
    InitWith(FlatScene,
             [horizon |-> FlatHorizon, gaps |-> FlatGaps, turns |-> 0,
              every |-> 1, gaits |-> {}, record |-> FALSE])

SpecFlat == InitFlat /\ [][Next]_vars

\* a walking and a zig-zagging person, 300 px apart, reported by the detector
\* in any order, either of them out of view for some frames; the run is
\* replayed on a second analyzer
ReplayHorizon == 12
ReplayGaps == 1

ReplayScene ==
    [o \in {"a", "b"} |->
        CASE o = "a" -> SceneObject("person", <<0, 0>>, "walk")
          [] o = "b" -> SceneObject("person", <<0, 300>>, "zigzag")]

InitReplay ==
    InitWith(ReplayScene,
             [horizon |-> ReplayHorizon, gaps |-> ReplayGaps, turns |-> 0,
              every |-> 1, gaits |-> {}, record |-> TRUE])

SpecReplay == InitReplay /\ [][Next]_vars

\* a walking person and a car that zig-zags; one of them leaves the view at
\* most once, for long enough to be evicted
ClassHorizon == 33

ClassScene ==
    [o \in {"a", "c"} |->
        CASE o = "a" -> SceneObject("person", <<0, 0>>, "walk")
          [] o = "c" -> SceneObject("car", <<0, 300>>, "zigzag")]

InitClass ==
    InitWith(ClassScene,
             [horizon |-> ClassHorizon, gaps |-> 1, turns |-> 0,
              every |-> 1, gaits |-> {}, record |-> FALSE])

SpecClass == InitClass /\ [][Next]_vars

\* two persons 120 px apart, one of them striding 60 px per frame towards the
\* other, who stands: the strider's detection is then as far from its own last
\* position as from the other person
TieHorizon == 4
TieGaps == 1

TieScene ==
    [o \in {"a", "b"} |->
        CASE o = "a" -> SceneObject("person", <<0, 0>>, "stride")
          [] o = "b" -> SceneObject("person", <<120, 0>>, "still")]

InitTie ==
    InitWith(TieScene,
             [horizon |-> TieHorizon, gaps |-> TieGaps, turns |-> 0,
              every |-> 1, gaits |-> {}, record |-> FALSE])

SpecTie == InitTie /\ [][Next]_vars

\* a zig-zagging person who may leave the view once, for any number of frames
StaleHorizon == 101
StaleGaps == 1

StaleScene == [o \in {"a"} |-> SceneObject("person", <<0, 0>>, "zigzag")]

InitStale ==
    InitWith(StaleScene,
             [horizon |-> StaleHorizon, gaps |-> StaleGaps, turns |-> 0,
              every |-> 1, gaits |-> {}, record |-> FALSE])

SpecStale == InitStale /\ [][Next]_vars

\* two persons 50 px apart, one creeping and one standing, either of them out
\* of view for some frames
NearHorizon == 5
NearGaps == 1

NearScene ==
    [o \in {"a", "b"} |->
        CASE o = "a" -> SceneObject("person", <<0, 0>>, "creep")
          [] o = "b" -> SceneObject("person", <<50, 0>>, "still")]

InitNear ==
    InitWith(NearScene,
             [horizon |-> NearHorizon, gaps |-> NearGaps, turns |-> 0,
              every |-> 1, gaits |-> {}, record |-> FALSE])

SpecNear == InitNear /\ [][Next]_vars

---------------------------------------------------------------------------
(* SurveillanceSystem / IntegratedSurveillanceSystem                         *)
(*                                                                           *)
(* env carries, besides the scene's budgets, how the system was built:      *)
(*   integrated  the object is an IntegratedSurveillanceSystem               *)
(*   callback    on_suspicious_event was given (base class only)             *)
(*   preview     start_monitoring(show_preview=True)                         *)
(*   stops       how many more times the embedding program calls             *)
(*               stop_monitoring() or clears is_running on its own           *)
(* The wall clock now is in whole seconds and advances while the loop waits  *)
(* for a frame or for the sink.  SurveillanceSystem.frame_count and fps are  *)
(* display statistics and are left out.                                      *)

\* event_key = f"{event['object_id']}_{event['behavior_type']}"
EventKey(e) == <<e.object_id, e.behavior_type>>

StillInCooldownInclusive(lat, key, current_time) ==
    /\ key \in DOMAIN lat
    /\ current_time - lat[key] <= DETECTION_COOLDOWN

\* "if event_key in self.last_alert_time:
\*      if current_time - self.last_alert_time[event_key] < settings.DETECTION_COOLDOWN"
StillInCooldown(lat, key, current_time) ==
    /\ key \in DOMAIN lat
    /\ current_time - lat[key] < DETECTION_COOLDOWN

\* "self.last_alert_time[event_key] = current_time"
AlertTimeAfter(lat, key, current_time) ==
    [k \in DOMAIN lat \cup {key} |-> IF k = key THEN current_time ELSE lat[k]]

\* SurveillanceSystem.handle_suspicious_event: the calls made to the outside for
\* one event, in order.  cb is what the callback does: "ok", "raise" (an
\* Exception, caught) or "stop" (it calls stop_monitoring and returns).
BaseSinkCalls(suppressed, has_callback) ==
    IF suppressed THEN <<>>
    ELSE <<"image">> \o (IF has_callback THEN <<"callback">> ELSE <<>>)

\* IntegratedSurveillanceSystem.handle_suspicious_event after the call of the
\* parent method: create_event, then notify_user_of_event unless create_event
\* raised
IntegratedSinkCalls(suppressed, db) ==
    <<"db">> \o (IF db = "ok" THEN <<"notify">> ELSE <<>>)

\* save_event_image is called outside any try block: when it raises (mkdir or
\* imwrite fails) the exception leaves handle_suspicious_event at once
ImageRaises(suppressed, img) == ~suppressed /\ img = "raise"

\* an event that got no image: suppressed, or save_event_image raised
NoPath == <<>>

\* save_event_image: the file written is
\* output_dir / "%Y-%m-%d" / f"{behavior_type}_{%Y%m%d_%H%M%S}.jpg", which is
\* fixed by the behaviour type and the second of the wall clock (t is in whole
\* seconds, the date is a function of t); neither the object id nor the frame
\* nor the camera is part of it
SaveEventImage(event, t) == <<event.behavior_type, t>>

\* event['image_path'] after handle_suspicious_event
ImagePathOf(suppressed, img, event, t) ==
    IF suppressed \/ img = "raise" THEN NoPath ELSE SaveEventImage(event, t)

\* all calls made to the outside for one event
SinkCalls(suppressed, e, db, img) ==
    IF ImageRaises(suppressed, img) THEN <<"image">>
    ELSE BaseSinkCalls(suppressed, e.callback)
         \o (IF e.integrated THEN IntegratedSinkCalls(suppressed, db) ELSE <<>>)

\* which call of the sink raised while the event was handled, if any; an
\* Exception of the callback, of create_event or of notify_user_of_event is
\* caught where it is raised
Raised(cb, db, img) ==
    IF img = "raise" THEN "image"
    ELSE IF cb = "raise" THEN "callback"
    ELSE IF db = "raise" THEN "db"
    ELSE "none"

RestDropped(p) == <<>>

\* the event list that is left to handle after one event was handled
\* ("for event in suspicious_events")
RestOfEvents(p) == Tail(p)

\* stop_monitoring: the number of release() calls after it ran
ReleasesAfterStop(cam, n) == IF cam # "none" THEN n + 1 ELSE n

\* bounds of the loop
LoopHorizon == 102
LoopMaxTime == 6
LoopStops == 1

\* the clock after waiting: it stands or moves on by a second
Later(t) == {t2 \in {t, t + 1} : t2 <= LoopMaxTime}

LoopConditionIgnored(running) == TRUE

\* "while self.is_running"
LoopCondition(running) == running

\* start_monitoring up to the loop: initialize_camera, is_running = True
StartMonitoring ==
    /\ pc = "idle"
    /\ \E opened \in {"open", "closed", "none"} :
          /\ camera' = opened
          /\ IF opened = "open"
             THEN is_running' = TRUE /\ pc' = "loop"
             ELSE is_running' = is_running /\ pc' = "failed"
    /\ UNCHANGED <<releases, last_alert_time, now, pending, delivered, sink>>
    /\ UNCHANGED <<analyzerVars, obsVars, envVars>>

\* "while self.is_running: ret, frame = self.camera.read(); if not ret: break"
ReadFrame ==
    /\ pc = "loop"
    /\ LoopCondition(is_running)
    /\ frame_count < env.horizon
    /\ \E ret \in BOOLEAN : pc' = IF ret THEN "process" ELSE "read_failed"
    /\ now' \in Later(now)
    /\ UNCHANGED <<is_running, camera, releases, last_alert_time, pending, delivered, sink>>
    /\ UNCHANGED <<analyzerVars, obsVars, envVars>>

AfterFailedReadRetry == "loop"

\* where "break" leads: out of the while loop, into the finally block
AfterFailedRead == "finally"

\* "if not ret: print(...); break"
FailedRead ==
    /\ pc = "read_failed"
    /\ pc' = AfterFailedRead
    /\ UNCHANGED <<is_running, camera, releases, last_alert_time, now, pending,
                   delivered, sink>>
    /\ UNCHANGED <<analyzerVars, obsVars, envVars>>

\* "while self.is_running" found false
LoopExit ==
    /\ pc = "loop"
    /\ ~LoopCondition(is_running)
    /\ pc' = "finally"
    /\ UNCHANGED <<is_running, camera, releases, last_alert_time, now, pending,
                   delivered, sink>>
    /\ UNCHANGED <<analyzerVars, obsVars, envVars>>

\* process_frame: detect_objects (external), update_tracks,
\* detect_suspicious_behaviors
ProcessFrame ==
    /\ pc = "process"
    /\ \E mv \in SceneMoves(scene, env, frame_count + 1) :
         LET sc2 == SceneAfter(scene, mv, frame_count + 1)
         IN  \E detections \in DetectionLists(sc2, mv) :
               LET r == UpdateTracksResult(tracked_objects, next_object_id,
                                           frame_count, detections)
                   evs == SuspiciousEvents(r.tracks, alert_cooldown, frame_count + 1)
               IN  /\ tracked_objects' = TracksAfterDetect(r.tracks, evs)
                   /\ next_object_id' = r.next
                   /\ frame_count' = frame_count + 1
                   /\ matches' = r.log
                   /\ hist' = HistAfter(hist, r.log, frame_count + 1)
                   /\ scene' = sc2
                   /\ env' = EnvAfter(scene, env, mv)
                   /\ events' = evs
                   /\ alert_cooldown' = CooldownAfter(alert_cooldown, evs, frame_count + 1)
                   /\ emit_hist' = EmitHistAfter(emit_hist, evs, frame_count + 1)
                   /\ replica' = ReplicaAfterDetect(
                                     ReplicaAfterUpdate(replica, env, detections), env)
                   /\ pending' = evs
    /\ delivered' = <<>>
    /\ pc' = "handle"
    /\ UNCHANGED <<phase, is_running, camera, releases, last_alert_time, now, sink>>

\* one turn of "for event in suspicious_events: self.handle_suspicious_event(frame, event)"
HandleEvent ==
    /\ pc = "handle"
    /\ pending # <<>>
    /\ \E current_time \in Later(now), cb \in {"ok", "raise", "stop"},
          db \in {"ok", "raise"}, img \in {"ok", "raise"} :
         LET key        == EventKey(Head(pending))
             suppressed == StillInCooldown(last_alert_time, key, current_time)
             calls      == SinkCalls(suppressed, env, db, img)
             called     == \E i \in DOMAIN calls : calls[i] = "callback"
             stopped    == called /\ cb = "stop"
             count(w)   == Cardinality({i \in DOMAIN calls : calls[i] = w})
         IN  /\ (~called) => cb = "ok"
             /\ (~env.integrated \/ ImageRaises(suppressed, img)) => db = "ok"
             /\ suppressed => img = "ok"
             /\ now' = current_time
             /\ last_alert_time' = IF suppressed THEN last_alert_time
                                   ELSE AlertTimeAfter(last_alert_time, key, current_time)
             /\ delivered' = Append(delivered,
                                [key |-> key, suppressed |-> suppressed, calls |-> calls,
                                 raised |-> Raised(cb, db, img),
                                 time |-> current_time,
                                 image_path |-> ImagePathOf(suppressed, img,
                                                   Head(pending), current_time)])
             /\ sink' = [images    |-> sink.images + count("image"),
                         callbacks |-> sink.callbacks + count("callback"),
                         db        |-> sink.db + count("db"),
                         mails     |-> sink.mails + count("notify")]
             /\ is_running' = IF stopped THEN FALSE ELSE is_running
             /\ releases' = IF stopped THEN ReleasesAfterStop(camera, releases)
                            ELSE releases
             /\ pc' = IF ImageRaises(suppressed, img) THEN "finally" ELSE pc
    /\ pending' = RestOfEvents(pending)
    /\ UNCHANGED camera
    /\ UNCHANGED <<analyzerVars, obsVars, envVars>>

\* the rest of the loop body: the preview and its key ('q' leaves the loop)
EndOfFrame ==
    /\ pc = "handle"
    /\ pending = <<>>
    /\ \E key \in {"none", "q", "s"} :
          /\ (key # "none") => env.preview
          /\ pc' = IF key = "q" THEN "finally" ELSE "loop"
    /\ UNCHANGED <<is_running, camera, releases, last_alert_time, now, pending,
                   delivered, sink>>
    /\ UNCHANGED <<analyzerVars, obsVars, envVars>>

\* "except KeyboardInterrupt": Ctrl-C anywhere inside the try block
KeyboardInterrupt ==
    /\ pc \in {"loop", "process", "handle"}
    /\ pc' = "finally"
    /\ UNCHANGED <<is_running, camera, releases, last_alert_time, now, pending,
                   delivered, sink>>
    /\ UNCHANGED <<analyzerVars, obsVars, envVars>>

\* "finally: self.stop_monitoring()"
Finally ==
    /\ pc = "finally"
    /\ is_running' = FALSE
    /\ releases' = ReleasesAfterStop(camera, releases)
    /\ pc' = "stopped"
    /\ UNCHANGED <<camera, last_alert_time, now, pending, delivered, sink>>
    /\ UNCHANGED <<analyzerVars, obsVars, envVars>>

\* stop_monitoring() called by the embedding program after the loop has ended
StopMonitoring ==
    /\ pc = "stopped"
    /\ env.stops > 0
    /\ env' = [env EXCEPT !.stops = @ - 1]
    /\ is_running' = FALSE
    /\ releases' = ReleasesAfterStop(camera, releases)
    /\ UNCHANGED <<pc, camera, last_alert_time, now, pending, delivered, sink>>
    /\ UNCHANGED <<analyzerVars, obsVars, scene, phase>>

\* the stop signal: is_running cleared from outside while the loop runs
ClearRunning ==
    /\ pc \in {"loop", "process", "handle"}
    /\ is_running
    /\ env.stops > 0
    /\ env' = [env EXCEPT !.stops = @ - 1]
    /\ is_running' = FALSE
    /\ UNCHANGED <<pc, camera, releases, last_alert_time, now, pending, delivered, sink>>
    /\ UNCHANGED <<analyzerVars, obsVars, scene, phase>>

NextLoop ==
    \/ StartMonitoring
    \/ ReadFrame
    \/ FailedRead
    \/ LoopExit
    \/ ProcessFrame
    \/ HandleEvent
    \/ EndOfFrame
    \/ KeyboardInterrupt
    \/ Finally
    \/ StopMonitoring
    \/ ClearRunning

\* a person zig-zagging in front of the camera, seen in every frame; the system
\* is the base class with or without a callback, or the integrated one
InitLoop ==
    \E cfg \in {<<FALSE, FALSE>>, <<FALSE, TRUE>>, <<TRUE, FALSE>>}, pv \in BOOLEAN :
        InitWith([o \in {"a"} |-> SceneObject("person", <<0, 0>>, "zigzag")],
                 [horizon |-> LoopHorizon, gaps |-> 0, turns |-> 0, every |-> 1,
                  gaits |-> {}, integrated |-> cfg[1], callback |-> cfg[2],
                  preview |-> pv, stops |-> LoopStops, record |-> FALSE])

SpecLoop == InitLoop /\ [][NextLoop]_vars

\* two persons zig-zagging 300 px apart in front of one camera of the base
\* class, seen in every frame
PairHorizon == 11

PairScene ==
    [o \in {"a", "b"} |->
        CASE o = "a" -> SceneObject("person", <<0, 0>>, "zigzag")
          [] o = "b" -> SceneObject("person", <<300, 0>>, "zigzag")]

InitPair ==
    InitWith(PairScene,
             [horizon |-> PairHorizon, gaps |-> 0, turns |-> 0, every |-> 1,
              gaits |-> {}, integrated |-> FALSE, callback |-> FALSE,
              preview |-> FALSE, stops |-> LoopStops, record |-> FALSE])

SpecPair == InitPair /\ [][NextLoop]_vars

---------------------------------------------------------------------------
(* Claims about the tracker *)

\* C2: within one update_tracks call no existing track is matched to more than
\* one detection of the frame.
C2_NoTrackMatchedTwice ==
    \A i, j \in DOMAIN matches :
        (i < j /\ matches[i].existing /\ matches[j].existing)
            => matches[i].id # matches[j].id

\* the object o is the only one of its class in the scene
SoleOfClass(o) == \A p \in DOMAIN scene : p # o => scene[p].cls # scene[o].cls

\* C5 (as stated): every physical object whose consecutive detections are less
\* than 100 px and at most 10 frames apart has all its detections assigned to
\* one track id, also with several objects of its class in the frame.
C5_SameObjectSameTrack ==
    \A o \in DOMAIN hist.ids : scene[o].ok => Cardinality(hist.ids[o]) <= 1

\* C5 (amended): the same, for an object that is the only one of its class in
\* the detection sequence.
C5_SoleObjectSameTrack ==
    \A o \in DOMAIN hist.ids :
        (scene[o].ok /\ SoleOfClass(o)) => Cardinality(hist.ids[o]) <= 1

\* C5 witness: the car, alone in its class among two persons, detected at
\* least three times, once after an occlusion, always under one id.
C5_Witness ==
    /\ {"a", "b", "c"} \subseteq DOMAIN hist.ids
    /\ scene["c"].ok /\ SoleOfClass("c")
    /\ scene["c"].k >= 3
    /\ scene["c"].shown = frame_count /\ frame_count > scene["c"].k
    /\ Cardinality(hist.ids["c"]) = 1

C7_IdsNeverReused ==
    /\ \A i, j \in DOMAIN hist.alloc : i < j => hist.alloc[i] < hist.alloc[j]
    /\ \A i \in DOMAIN hist.alloc : hist.alloc[i] < next_object_id
    /\ \A id \in DOMAIN tracked_objects :
          /\ tracked_objects[id].id = id
          /\ \E i \in DOMAIN hist.alloc : hist.alloc[i] = id

\* C7 witness: an object whose track was evicted is back in view under a new,
\* larger id.
C7_Witness ==
    \E old, new \in DOMAIN hist.born :
        /\ old \notin DOMAIN tracked_objects
        /\ new \in DOMAIN tracked_objects
        /\ hist.owner[old] = hist.owner[new]
        /\ hist.born[new] > hist.seen[old] + 31
        /\ new > old

---------------------------------------------------------------------------
(* Claims about the alert cooldown *)

KindSet == {Kinds[i] : i \in DOMAIN Kinds}

\* detect_suspicious_behaviors has run for the current frame
AfterDetect == phase = "update" /\ frame_count > 0

\* the frames at which the event <<id, kind>> was emitted so far
Emissions(id, kind) ==
    IF <<id, kind>> \in DOMAIN emit_hist THEN emit_hist[<<id, kind>>] ELSE <<>>

\* the event <<id, kind>> is in the list returned for the current frame
EmittedNow(id, kind) ==
    \E i \in DOMAIN events :
        events[i].object_id = id /\ events[i].behavior_type = kind

\* the event <<id, kind>> was emitted in one of the previous 89 frames
EmittedInPrevious89(id, kind) ==
    \E i \in DOMAIN Emissions(id, kind) :
        /\ Emissions(id, kind)[i] < frame_count
        /\ frame_count - Emissions(id, kind)[i] <= 89

C4_SameEventAtLeast90Apart ==
    /\ \A key \in DOMAIN emit_hist :
          \A i \in 1..(Len(emit_hist[key]) - 1) :
              emit_hist[key][i + 1] - emit_hist[key][i] >= 90
    /\ AfterDetect =>
          \A i \in DOMAIN events :
              /\ events[i].object_id \in DOMAIN alert_cooldown
              /\ alert_cooldown[events[i].object_id] = frame_count

\* C4 witness: an event is emitted again exactly 90 frames after it was emitted
\* last, after having qualified and been suppressed in the frame before.
C4_Witness ==
    /\ AfterDetect
    /\ \E i \in DOMAIN events :
          LET em == Emissions(events[i].object_id, events[i].behavior_type)
          IN  /\ Len(em) >= 2
              /\ em[Len(em)] = frame_count
              /\ em[Len(em) - 1] = frame_count - 90

\* the track was created by, and matched in every frame since to, detections
\* that each moved less than 10 px
AlwaysStationary(t) ==
    /\ IsPerson(t)
    /\ t.last_seen = frame_count
    /\ t.stationary_frames = t.last_seen - t.first_seen

\* C10: for a person track matched in every frame with displacement below 10 px,
\* consecutive loitering events are exactly 90 frames apart, none is emitted
\* before the track was in view for more than 150 frames, and from then on the
\* last loitering event is never 90 or more frames old (before the first one,
\* the track is inside the cooldown of an earlier alert).
C10_LoiteringOncePer90 ==
    \A id \in DOMAIN tracked_objects :
        LET t == tracked_objects[id]
            em == Emissions(id, "loitering")
        IN  AlwaysStationary(t) =>
              /\ \A i \in 1..(Len(em) - 1) : em[i + 1] - em[i] = 90
              /\ \A i \in DOMAIN em : em[i] - t.first_seen + 1 > 150
              /\ (AfterDetect /\ TimeInView(t) > 150) =>
                    \/ em # <<>> /\ frame_count - em[Len(em)] < 90
                    \/ /\ em = <<>>
                       /\ id \in DOMAIN alert_cooldown
                       /\ frame_count - alert_cooldown[id] < 90
                       /\ alert_cooldown[id] - t.first_seen + 1 <= 150

\* C10 witness: such a track with two loitering events, in a frame in which
\* loitering qualifies and is suppressed.
C10_Witness ==
    /\ AfterDetect
    /\ \E id \in DOMAIN tracked_objects :
          /\ AlwaysStationary(tracked_objects[id])
          /\ Len(Emissions(id, "loitering")) >= 2
          /\ Qualifies(tracked_objects[id], "loitering")
          /\ ~EmittedNow(id, "loitering")

---------------------------------------------------------------------------
(* Claims about the surveillance loop *)

\* how often the call w was made for the i-th event of the current frame
CallCount(i, w) ==
    Cardinality({j \in DOMAIN delivered[i].calls : delivered[i].calls[j] = w})

\* C3: for an event inside the 5 s wall-clock cooldown of its key nothing is
\* delivered: no image, no callback, and in the integrated system no database
\* event and no notification.
C3_SuppressedEventNotDelivered ==
    \A i \in DOMAIN delivered :
        delivered[i].suppressed => delivered[i].calls = <<>>

\* C8: for every run of start_monitoring that opened the camera, the handle is
\* released exactly once, however the loop ends and also when stop_monitoring
\* is called from a callback or again after the loop ended.
C8_CameraReleasedExactlyOnce ==
    /\ releases <= 1
    /\ (pc = "stopped") => releases = 1

\* C9: when the next frame is about to be read, every event the classifier
\* returned for the frame just processed was handled, in order, and each event
\* outside the wall-clock cooldown was delivered exactly once (one image, one
\* callback call if a callback was given, one create_event in the integrated
\* system); meanwhile no event is handled twice.
C9_EachEventDeliveredOnce ==
    /\ (pc = "handle") => Len(delivered) + Len(pending) = Len(events)
    /\ (pc = "loop" /\ frame_count > 0) =>
          /\ pending = <<>>
          /\ Len(delivered) = Len(events)
          /\ \A i \in DOMAIN delivered :
                /\ delivered[i].key = EventKey(events[i])
                /\ (~delivered[i].suppressed) =>
                      /\ CallCount(i, "image") = 1
                      /\ CallCount(i, "callback") = (IF env.callback THEN 1 ELSE 0)
                      /\ CallCount(i, "db") = (IF env.integrated THEN 1 ELSE 0)

\* C9 witness: a frame with two events is over, one of them was delivered and
\* the other one suppressed by the wall-clock cooldown.
C9_Witness ==
    /\ pc = "loop"
    /\ Len(delivered) >= 2
    /\ \E i, j \in DOMAIN delivered :
          /\ delivered[i].suppressed
          /\ ~delivered[j].suppressed
          /\ CallCount(j, "callback") = 1

---------------------------------------------------------------------------
(* Claims about the classifier *)

\* the only object of the scene has walked 20 px to the right in every frame
\* so far, and was detected in every frame
AlwaysWalking ==
    /\ DOMAIN scene = {"a"}
    /\ scene["a"].gait = "walk"
    /\ scene["a"].k = frame_count
    /\ scene["a"].shown = frame_count

Malformed(bbox) == bbox[1] >= bbox[3] \/ bbox[2] >= bbox[4]

\* C12: a malformed detection (x1 >= x2 or y1 >= y2) neither creates nor
\* updates a track: no track holds a malformed box in its bbox_history.
C12_MalformedDetectionRejected ==
    \A id \in DOMAIN tracked_objects :
        \A i \in DOMAIN tracked_objects[id].bbox_history :
            ~Malformed(tracked_objects[id].bbox_history[i])

\* C13: when a call of the event sink raises while an event is handled, the
\* error is consumed: the tracker state and the classifier cooldowns are
\* unchanged, the loop stays in the dispatch of the frame with the remaining
\* events still to handle, and goes on to the next frame.
C13_SinkErrorConsumed ==
    [][ ( /\ pc = "handle"
          /\ Len(delivered') = Len(delivered) + 1
          /\ delivered'[Len(delivered')].raised # "none" )
        => ( /\ pc' = "handle"
             /\ pending' = Tail(pending)
             /\ UNCHANGED analyzerVars ) ]_vars

\* C14: a stop signal (is_running cleared) does not truncate the iteration in
\* progress: whatever is_running is, the dispatch starts from a complete track
\* update and classification of the frame that was read, every event of it can
\* be dispatched and the end of the body can be reached; the signal is observed
\* at the loop test, where no further frame is read and the loop is left with
\* the dispatch complete.
C14_StopObservedBetweenFrames ==
    /\ (pc = "handle") =>
          /\ \A id \in DOMAIN tracked_objects :
                tracked_objects[id].last_seen = frame_count
          /\ \A i \in DOMAIN events :
                alert_cooldown[events[i].object_id] = frame_count
          /\ Len(delivered) + Len(pending) = Len(events)
    /\ (pc = "handle" /\ pending # <<>>) => ENABLED HandleEvent
    /\ (pc = "handle" /\ pending = <<>>) => ENABLED EndOfFrame
    /\ (pc = "loop" /\ ~is_running) =>
          /\ ~ENABLED ReadFrame
          /\ ENABLED LoopExit
          /\ pending = <<>>
          /\ (frame_count > 0) => Len(delivered) = Len(events)

\* C14 witness: is_running was cleared from outside (the camera is not
\* released) in the middle of the dispatch of a frame with two events.
C14_Witness ==
    /\ pc = "handle"
    /\ ~is_running
    /\ releases = 0
    /\ delivered # <<>>
    /\ pending # <<>>

\* C15: when a frame read fails, the iteration does nothing else (no track
\* update, no classification, no delivery): the next step leaves the loop for
\* the finally block with the analyzer, the events and the sink untouched; once
\* the loop is left no frame is read again, and stop_monitoring leaves
\* is_running false.
C15_FailedReadStopsLoop ==
    [][ /\ (pc = "read_failed") =>
              /\ pc' = "finally"
              /\ UNCHANGED <<analyzerVars, events, pending, delivered, sink,
                             last_alert_time>>
        /\ (pc \in {"finally", "stopped"}) => pc' \in {"finally", "stopped"}
        /\ (pc' = "stopped") => ~is_running' ]_vars

\* C15 witness: a read has just failed, after frames had been processed, while
\* the system was still running.
C15_Witness ==
    /\ pc = "read_failed"
    /\ frame_count > 0
    /\ is_running

ClassOfId(id) == scene[hist.owner[id]].cls

\* C17: every event ever emitted, and every cooldown entry, belongs to a track
\* of class 'person'; a track of another class is kept and evicted like any
\* track (it is tracked exactly while it was matched in the last 30 frames).
C17_OnlyPersonsAlert ==
    /\ \A key \in DOMAIN emit_hist : ClassOfId(key[1]) = "person"
    /\ \A i \in DOMAIN events : events[i].class_name = "person"
    /\ \A id \in DOMAIN alert_cooldown : ClassOfId(id) = "person"
    /\ \A id \in DOMAIN hist.seen :
          (ClassOfId(id) # "person") =>
              /\ (id \in DOMAIN tracked_objects) <=> (frame_count - hist.seen[id] <= 30)
              /\ (id \in DOMAIN tracked_objects) =>
                    /\ tracked_objects[id].class_name = ClassOfId(id)
                    /\ tracked_objects[id].last_seen = hist.seen[id]

\* C17 witness: a car track that satisfies the condition of a behaviour kind
\* right after classification, without event and without cooldown entry, while
\* the person of the scene did get an event.
C17_Witness ==
    /\ AfterDetect
    /\ emit_hist # EmptyMap
    /\ \E id \in DOMAIN tracked_objects :
          /\ tracked_objects[id].class_name = "car"
          /\ tracked_objects[id].last_seen = frame_count
          /\ \E k \in KindSet : Qualifies(tracked_objects[id], k)
          /\ id \notin DOMAIN alert_cooldown

\* the kinds of the events returned for the track id in the current frame, in
\* the order of the list
EmittedKinds(id) ==
    LET OfTrack(e) == e.object_id = id
        evs == SelectSeq(events, OfTrack)
    IN  [i \in DOMAIN evs |-> evs[i].behavior_type]

\* the kinds whose condition the track satisfies, in the order fast_movement,
\* loitering, erratic_movement
QualifyingKinds(t) ==
    LET Holds(k) == Qualifies(t, k)
    IN  SelectSeq(Kinds, Holds)

\* C18: for a person track that is not in cooldown, the events of a frame are
\* one event per qualifying behaviour kind, in the order fast_movement,
\* loitering, erratic_movement: an event of the frame does not suppress the
\* later kinds of the same frame.
C18_AllQualifyingKindsEmitted ==
    AfterDetect =>
        \A id \in DOMAIN tracked_objects :
            ( /\ IsPerson(tracked_objects[id])
              /\ ~(\E k \in KindSet : EmittedInPrevious89(id, k)) )
            => EmittedKinds(id) = QualifyingKinds(tracked_objects[id])

\* C18 witness: a track has just got a loitering and an erratic_movement event
\* in the same frame, in this order.
C18_Witness ==
    /\ AfterDetect
    /\ \E id \in DOMAIN tracked_objects :
          EmittedKinds(id) = <<"loitering", "erratic_movement">>

\* C19: a call of detect_suspicious_behaviors leaves the set of tracks, every
\* field of every track, next_object_id and frame_count as they were; of the
\* analyzer state it changes the alert cooldown map only, and that only for
\* the tracks of the events it returns.
C19_DetectOnlyReadsTracks ==
    [][ (phase = "detect" /\ phase' = "update") =>
            /\ UNCHANGED <<tracked_objects, next_object_id, frame_count>>
            /\ \A id \in DOMAIN alert_cooldown' :
                  \/ id \in DOMAIN alert_cooldown
                       /\ alert_cooldown'[id] = alert_cooldown[id]
                  \/ \E i \in DOMAIN events' : events'[i].object_id = id ]_vars

\* C19 witness: detect_suspicious_behaviors has just returned an event for a
\* track and recorded its cooldown.
C19_Witness ==
    /\ AfterDetect
    /\ events # <<>>
    /\ \E id \in DOMAIN tracked_objects :
          /\ id \in DOMAIN alert_cooldown
          /\ alert_cooldown[id] = frame_count
          /\ tracked_objects[id].last_seen = frame_count

\* the track id was updated exactly once by the update_tracks call of this step
UpdatedOnce(id) ==
    /\ id \in DOMAIN tracked_objects
    /\ Cardinality({i \in DOMAIN matches' : matches'[i].id = id}) = 1
    /\ frame_count' = frame_count + 1

\* C20: after every step, each track's position_history and bbox_history have
\* the same length, between 1 and 30, and first_seen <= last_seen <=
\* frame_count; an update of a track whose histories are full drops the oldest
\* entry of both and appends the new one.
C20_HistoriesBoundedAndAligned ==
    [][ \A id \in DOMAIN tracked_objects' :
          LET t == tracked_objects'[id]
          IN  /\ Len(t.position_history) = Len(t.bbox_history)
              /\ Len(t.position_history) \in 1..30
              /\ t.first_seen <= t.last_seen
              /\ t.last_seen <= frame_count'
              /\ (UpdatedOnce(id) /\ Len(tracked_objects[id].position_history) = 30) =>
                    /\ SubSeq(t.position_history, 1, 29)
                         = Tail(tracked_objects[id].position_history)
                    /\ SubSeq(t.bbox_history, 1, 29)
                         = Tail(tracked_objects[id].bbox_history)
                    /\ \E i \in DOMAIN matches' :
                          /\ matches'[i].id = id
                          /\ t.position_history[30] = matches'[i].center ]_vars

\* C20 witness: a track that was updated more often than its histories hold
\* entries: both are full and the oldest entries are gone.
C20_Witness ==
    \E id \in DOMAIN tracked_objects :
        /\ Len(tracked_objects[id].position_history) = 30
        /\ Len(tracked_objects[id].bbox_history) = 30
        /\ TimeInView(tracked_objects[id]) > 31
        /\ tracked_objects[id].last_seen = frame_count

---------------------------------------------------------------------------
(* Claims about the matching *)

\* the tracks that were candidates for the i-th detection of the last
\* update_tracks call: same class, seen in the last 10 frames, last position
\* strictly less than 100 px from the detection
Candidates(i) ==
    {j \in DOMAIN matches[i].snapshot :
        /\ matches[i].snapshot[j].class_name = matches[i].class_name
        /\ matches[i].snapshot[j].age <= 10
        /\ matches[i].snapshot[j].d2 < 100 * 100}

\* C21: a detection is matched only to a candidate track (same class,
\* frame_count - last_seen <= 10 at match time, last position strictly less
\* than 100 px away), and a detection without candidate creates a new track;
\* a track unseen for 11 to 30 frames is still in the dict and is no candidate.
C21_MatchOnlyEligibleTracks ==
    /\ \A i \in DOMAIN matches :
          /\ (~matches[i].created) => matches[i].id \in Candidates(i)
          /\ (Candidates(i) = {}) <=> matches[i].created
          /\ matches[i].created => matches[i].id \notin DOMAIN matches[i].snapshot
    /\ \A id \in DOMAIN hist.seen :
          (frame_count - hist.seen[id] \in 11..30) =>
              /\ id \in DOMAIN tracked_objects
              /\ \A i \in DOMAIN matches : matches[i].id # id

\* C21 witness: an object comes back into view less than 100 px from where its
\* track saw it last, more than 10 frames ago: the track is still in the dict,
\* and a new track is created for the detection.
C21_Witness ==
    \E i \in DOMAIN matches :
        /\ matches[i].created
        /\ \E j \in DOMAIN matches[i].snapshot :
              /\ matches[i].snapshot[j].class_name = matches[i].class_name
              /\ matches[i].snapshot[j].d2 < 100 * 100
              /\ matches[i].snapshot[j].age = 11
              /\ j \in DOMAIN tracked_objects

\* C22: the track chosen for a detection is a candidate at minimum distance
\* from the detection among all candidates, and of the candidates at that
\* minimum distance it is the one with the lowest id.
C22_ClosestThenLowestId ==
    \A i \in DOMAIN matches :
        (~matches[i].created) =>
            /\ matches[i].id \in Candidates(i)
            /\ \A j \in Candidates(i) :
                  /\ matches[i].snapshot[matches[i].id].d2 <= matches[i].snapshot[j].d2
                  /\ (matches[i].snapshot[j].d2 = matches[i].snapshot[matches[i].id].d2)
                        => matches[i].id <= j

\* C22 witness: a detection with two candidates at the same distance was given
\* to the one with the lower id.
C22_Witness ==
    \E i \in DOMAIN matches :
        /\ ~matches[i].created
        /\ \E j \in Candidates(i) :
              /\ j > matches[i].id
              /\ matches[i].snapshot[j].d2 = matches[i].snapshot[matches[i].id].d2

---------------------------------------------------------------------------
(* Claims about the movement statistics of a track *)

\* the i-th entry of the log is the last update of its track in the call
LastUpdateOfCall(i) ==
    /\ ~matches[i].created
    /\ \A j \in DOMAIN matches : j > i => matches[j].id # matches[i].id

Step(w, i) == <<w[i][1] - w[i - 1][1], w[i][2] - w[i - 1][2]>>

\* the indices i of the window w at which the displacement into w[i - 1] and the
\* displacement out of it are both non-zero and form an angle above 90 degrees
SharpTurns(w) ==
    {i \in 3..Len(w) :
        /\ Step(w, i - 1) # <<0, 0>>
        /\ Step(w, i) # <<0, 0>>
        /\ Step(w, i - 1)[1] * Step(w, i)[1] + Step(w, i - 1)[2] * Step(w, i)[2] < 0}

\* the last 15 stored positions of the track
Window15(t) ==
    [i \in 1..(IF Len(t.position_history) < 15 THEN Len(t.position_history) ELSE 15) |->
        t.position_history[Len(t.position_history)
                           - (IF Len(t.position_history) < 15
                              THEN Len(t.position_history) ELSE 15) + i]]

RECURSIVE SumOfLastSteps(_, _)
SumOfLastSteps(ph, n) ==
    IF n = 0 THEN 0
    ELSE Distance(ph[Len(ph) - n + 1], ph[Len(ph) - n])
         + SumOfLastSteps(ph, n - 1)

\* get_speed of the track is the average length of its last n displacements
SpeedIsAverageOfLast(t, n) ==
    GetSpeed(t)[1] * n = SumOfLastSteps(t.position_history, n) * GetSpeed(t)[2]

\* how many displacements a history of length len holds, up to most
PairsUpTo(len, most) == IF len - 1 < most THEN len - 1 ELSE most

\* C25 (as stated): get_speed is the average distance over the last
\* min(10, history length) consecutive position pairs (all pairs when the
\* history holds fewer), and 0 with fewer than 2 positions.
C25_SpeedOverLastTenPairs ==
    \A id \in DOMAIN tracked_objects :
        LET t == tracked_objects[id]
        IN  IF Len(t.position_history) < 2 THEN GetSpeed(t)[1] = 0
            ELSE SpeedIsAverageOfLast(t, PairsUpTo(Len(t.position_history), 10))

\* C25 (amended): get_speed is the average distance over the consecutive pairs
\* of the last min(10, history length) positions, which are at most 9 pairs; it
\* is 0 with fewer than 2 positions and 20 for a constant 20 px per update.
C25_SpeedOverLastTenPositions ==
    \A id \in DOMAIN tracked_objects :
        LET t == tracked_objects[id]
        IN  /\ IF Len(t.position_history) < 2 THEN GetSpeed(t)[1] = 0
               ELSE /\ SpeedIsAverageOfLast(t, PairsUpTo(Len(t.position_history), 9))
                    /\ GetSpeed(t)[2] = PairsUpTo(Len(t.position_history), 9)
            /\ (AlwaysWalking /\ Len(t.position_history) >= 2)
                  => GetSpeed(t)[1] = 20 * GetSpeed(t)[2]

\* C25 witness: a track with more than 10 positions whose tenth-last
\* displacement differs from the nine after it: the average over 9 pairs is
\* not the average over 10.
C25_Witness ==
    \E id \in DOMAIN tracked_objects :
        LET t == tracked_objects[id]
        IN  /\ Len(t.position_history) > 10
            /\ SpeedIsAverageOfLast(t, 9)
            /\ ~SpeedIsAverageOfLast(t, 10)

---------------------------------------------------------------------------
(* Claims about update_tracks *)

\* C26: update_tracks with an empty detection list advances frame_count by
\* one, creates no track, removes exactly the tracks whose frame_count -
\* last_seen then exceeds 30 and leaves every other track, and the cooldown
\* map, as they were.
C26_EmptyFrameOnlySweeps ==
    [][ (frame_count' = frame_count + 1 /\ matches' = <<>>) =>
            /\ next_object_id' = next_object_id
            /\ alert_cooldown' = alert_cooldown
            /\ DOMAIN tracked_objects'
                 = {id \in DOMAIN tracked_objects :
                       frame_count' - tracked_objects[id].last_seen <= 30}
            /\ \A id \in DOMAIN tracked_objects' :
                  tracked_objects'[id] = tracked_objects[id] ]_vars

\* C26 witness: a frame without detections has just been processed; the track
\* of the scene was last seen 31 frames before and is gone.
C26_Witness ==
    /\ phase = "detect"
    /\ matches = <<>>
    /\ tracked_objects = EmptyMap
    /\ \E id \in DOMAIN hist.seen : frame_count - hist.seen[id] = 31

\* C27: every event returned for a frame refers to a track that was matched
\* to a detection of that frame (last_seen = frame_count).
C27_EventsOnlyForMatchedTracks ==
    AfterDetect =>
        \A i \in DOMAIN events :
            tracked_objects[events[i].object_id].last_seen = frame_count

\* C28: a detection is never matched to a track that was created earlier in
\* the same update_tracks call, so that every track gets at most one position
\* per call.
C28_NoMatchToTrackOfSameCall ==
    /\ \A i \in DOMAIN matches : (~matches[i].created) => matches[i].existing
    /\ \A i, j \in DOMAIN matches : i < j => matches[i].id # matches[j].id

---------------------------------------------------------------------------
(* Claims about the artifacts and the wall-clock cooldown *)

\* C29: two different delivered events never get the same image path, so no
\* image is overwritten by a later one.
C29_DistinctImagePaths ==
    \A i, j \in DOMAIN delivered :
        (i < j /\ delivered[i].image_path # NoPath /\ delivered[j].image_path # NoPath)
            => delivered[i].image_path # delivered[j].image_path

\* C30: last_alert_time changes only when an event passes the wall-clock
\* cooldown, and then its key is set to the time of that event; an event is
\* suppressed only when fewer than 5 seconds have passed since the time recorded
\* for its key, which it leaves unchanged; an event that passes comes at least
\* 5 seconds after the previous one of its key that passed.
C30_SuppressedKeepsAlertTime ==
    [][ IF Len(delivered') = Len(delivered) + 1
        THEN LET d == delivered'[Len(delivered')]
             IN  IF d.suppressed
                 THEN /\ last_alert_time' = last_alert_time
                      /\ d.key \in DOMAIN last_alert_time
                      /\ d.time >= last_alert_time[d.key]
                      /\ d.time - last_alert_time[d.key] < DETECTION_COOLDOWN
                 ELSE /\ DOMAIN last_alert_time' = DOMAIN last_alert_time \cup {d.key}
                      /\ last_alert_time'[d.key] = d.time
                      /\ \A k \in DOMAIN last_alert_time :
                             k # d.key => last_alert_time'[k] = last_alert_time[k]
                      /\ d.key \in DOMAIN last_alert_time =>
                             d.time - last_alert_time[d.key] >= DETECTION_COOLDOWN
        ELSE last_alert_time' = last_alert_time ]_vars

\* the zig-zagging person alerted at frame 10 alerts again at frame 100: the
\* fast_movement event is new and passes, the erratic_movement event comes less
\* than 5 seconds after the one of frame 10 and is suppressed, and the time
\* recorded for its key is still the earlier one
C30_Witness ==
    /\ frame_count = 100
    /\ \E i, j \in DOMAIN delivered :
          /\ delivered[i].suppressed
          /\ delivered[i].key \in DOMAIN last_alert_time
          /\ last_alert_time[delivered[i].key] < delivered[i].time
          /\ ~delivered[j].suppressed
          /\ last_alert_time[delivered[j].key] = delivered[j].time

=============================================================================
